---- MODULE Spec2Model ----
(***************************************************************************)
(* A model of gdownload: the attachment walker and its filename            *)
(* disambiguator, the OAuth token manager with its callback listener, and  *)
(* the gobin byte-array generator.                                         *)
(*                                                                         *)
(* File names and generated text are sequences of one-character strings,   *)
(* so that the regular expression, strconv.Atoi and the fmt verbs can be   *)
(* computed character by character.                                        *)
(***************************************************************************)
EXTENDS Integers, Sequences, FiniteSets, TLC

VARIABLES
    \* getUniqeFilename called on its own (SpecName)
    nDir,       \* names present in the directory
    nBad,       \* names whose os.Stat fails with an error other than not-exist
    nFile,      \* the desired file name of the current call
    nPc,        \* "call" | "returned" | "fatal"
    nRes,       \* the name the last call returned
    nCalls      \* calls made so far

nameVars == <<nDir, nBad, nFile, nPc, nRes, nCalls>>

VARIABLES
    \* gmailDownloadAttachments (SpecWalk)
    outDir,     \* names present in the output directory
    badNames,   \* names of outDir whose os.Stat fails (not with not-exist)
    wPc,        \* the walker's position
    pageToken,  \* the local pageToken
    resp,       \* the last list response: [ids, next]
    msgIdx,     \* index into resp.ids of the message being processed
    parts,      \* the file names of the parts of the fetched message
    partIdx,    \* index into parts
    name,       \* the name getUniqeFilename returned for the current part
    totalMsg,
    totalAtt,
    \* what an observer of the run has seen
    listLog,    \* per list request: [tok, ids, next]
    fetchLog,   \* ids of the messages fetched, in order
    written,    \* names of the files written, in order
    clobbered,  \* a write went to a name that was present
    scanned,    \* parts with a non-empty file name met so far
    apiCalls,   \* API calls issued
    reported,   \* <<>>, or <<attachments, messages>> of the totals line
    failure,    \* the first step that failed, or "none"
    atFailure   \* <<apiCalls, files written>> when it failed

walkVars == <<outDir, badNames, wPc, pageToken, resp, msgIdx, parts, partIdx,
              name, totalMsg, totalAtt, listLog, fetchLog, written, clobbered,
              scanned, apiCalls, reported, failure, atFailure>>

VARIABLES
    \* newOAuthClient and tokenFromWeb (SpecAuth)
    cacheToken,   \* the -cachetoken flag
    cacheFile,    \* the cache file: "missing", "garbage", or the token it holds
    cacheFile0,   \* the cache file when the program started
    aPc,          \* the main flow's position
    token,        \* the token newOAuthClient ends with, "" before
    listener,     \* "none" | "open" | "closed": the httptest server
    code,         \* the code received from ch, "" before
    hReq,         \* per handler: the request it serves
    hPc,          \* per handler: "free" | "send" (blocked on ch <- code) | "done"
    hStatus,      \* per handler: the HTTP status it answered with, 0 before
    \* what an observer of the run has seen
    sender,       \* the handler whose code the main flow received, 0 before
    late,         \* handlers whose request came after the code was received
    urlOpened,    \* the authorization URL was opened
    exchanges,    \* calls of config.Exchange
    cacheReads,   \* the cache file was opened for reading
    saves,        \* calls of saveToken
    saveFailed    \* saveToken could not create the file

authVars == <<cacheToken, cacheFile, cacheFile0, aPc, token, listener, code,
              hReq, hPc, hStatus, sender, late, urlOpened, exchanges,
              cacheReads, saves, saveFailed>>

VARIABLES
    \* gobin (SpecGen)
    format,     \* the -format flag
    step,       \* the -step flag: bytes per line
    buffer,     \* the bytes read from the input file
    bufCap,     \* cap(buffer)
    gI,         \* the loop index i of main
    gOut,       \* the text written between the header and the footer
    gOpen,      \* the opening parent written, "" before
    gClose,     \* the closing parent written, "" before
    gPc         \* "emit" | "done"

genVars == <<format, step, buffer, bufCap, gI, gOut, gOpen, gClose, gPc>>

vars == <<nameVars, walkVars, authVars, genVars>>

\* What the actions of one part of the program leave alone.
notName == <<walkVars, authVars, genVars>>

notWalk == <<nameVars, authVars, genVars>>

notAuth == <<nameVars, walkVars, genVars>>

notGen == <<nameVars, walkVars, authVars>>

\* A part of the program that a specification leaves out stays as it is here.
NameIdle ==
    /\ nFile = <<>>
    /\ nDir = {}
    /\ nBad = {}
    /\ nPc = "idle"
    /\ nRes = <<>>
    /\ nCalls = 0

WalkIdle ==
    /\ outDir = {}
    /\ badNames = {}
    /\ wPc = "idle"
    /\ pageToken = ""
    /\ resp = [ids |-> <<>>, next |-> ""]
    /\ msgIdx = 0
    /\ parts = <<>>
    /\ partIdx = 0
    /\ name = <<>>
    /\ totalMsg = 0
    /\ totalAtt = 0
    /\ listLog = <<>>
    /\ fetchLog = <<>>
    /\ written = <<>>
    /\ clobbered = FALSE
    /\ scanned = 0
    /\ apiCalls = 0
    /\ reported = <<>>
    /\ failure = "none"
    /\ atFailure = <<>>

AuthIdle ==
    /\ cacheToken = FALSE
    /\ cacheFile = "missing"
    /\ cacheFile0 = "missing"
    /\ aPc = "idle"
    /\ token = ""
    /\ listener = "none"
    /\ code = ""
    /\ hReq = <<>>
    /\ hPc = <<>>
    /\ hStatus = <<>>
    /\ sender = 0
    /\ late = {}
    /\ urlOpened = FALSE
    /\ exchanges = 0
    /\ cacheReads = 0
    /\ saves = 0
    /\ saveFailed = FALSE

GenIdle ==
    /\ format = "hexx"
    /\ step = 16
    /\ buffer = <<>>
    /\ bufCap = 0
    /\ gI = 0
    /\ gOut = <<>>
    /\ gOpen = ""
    /\ gClose = ""
    /\ gPc = "idle"

\* ------------------------------------------------------------------ bounds

\* Longest run stem(1)ext .. stem(MaxChain)ext the directories hold.
MaxChain == 2

\* Calls of getUniqeFilename in one behaviour of SpecName.
MaxCalls == 3

\* Pages of results, messages per page and parts per message the mailbox serves.
MaxPages == 2

MaxMsgs == 2

MaxParts == 2

\* Callback requests that reach the listener in one run.
MaxReqs == 3

\* Bytes of the input file, and the values of -step tried.
MaxLen == 3

MaxStep == 2

\* ------------------------------------------------------------ characters

Digits == <<"0", "1", "2", "3", "4", "5", "6", "7", "8", "9">>

IsDigit(c) == \E i \in 1..10 : Digits[i] = c

\* The value of a digit character.
DigitVal(c) == (CHOOSE i \in 1..10 : Digits[i] = c) - 1

Front(s) == SubSeq(s, 1, Len(s) - 1)

Last(s) == s[Len(s)]

Drop(s, n) == SubSeq(s, n + 1, Len(s))

\* ------------------------------------------------------------------ regexp
\* r = ^(.*?)(?:\(([0-9]+)\))?(\.[^\.]*)?$   (leftmost-first, no flags)

\* `.` matches any character but a newline.
NoNewline(s) == \A i \in 1..Len(s) : s[i] # "\n"

\* (\.[^\.]*)$ : a dot, then characters that are not dots, to the end.
IsExt(s) == /\ Len(s) >= 1
            /\ s[1] = "."
            /\ \A i \in 2..Len(s) : s[i] # "."

\* The index of the ")" that closes "(digits" at the head of s, or 0.
CounterEnd(s) ==
    IF /\ Len(s) >= 3
       /\ s[1] = "("
       /\ \E j \in 3..Len(s) : s[j] = ")" /\ \A i \in 2..(j - 1) : IsDigit(s[i])
    THEN CHOOSE j \in 3..Len(s) : s[j] = ")" /\ \A i \in 2..(j - 1) : IsDigit(s[i])
    ELSE 0

\* (?:\(([0-9]+)\))(\.[^\.]*)?$ : a counter, then an extension or nothing.
IsCounterTail(s) ==
    /\ CounterEnd(s) > 0
    /\ \/ CounterEnd(s) = Len(s)
       \/ IsExt(Drop(s, CounterEnd(s)))

\* Whether the expression matches with group 1 being the first p characters.
MatchesAt(file, p) ==
    /\ NoNewline(SubSeq(file, 1, p))
    /\ \/ IsCounterTail(Drop(file, p))
       \/ IsExt(Drop(file, p))
       \/ p = Len(file)

\* r.FindStringSubmatch(file): <<>> for nil, else the match and its three
\* groups; the lazy group 1 takes the fewest characters that let the rest match.
FindStringSubmatch(file) ==
    IF \A p \in 0..Len(file) : ~MatchesAt(file, p)
    THEN <<>>
    ELSE LET p    == CHOOSE q \in 0..Len(file) :
                        /\ MatchesAt(file, q)
                        /\ \A q2 \in 0..(q - 1) : ~MatchesAt(file, q2)
             rest == Drop(file, p)
             e    == CounterEnd(rest)
         IN  IF IsCounterTail(rest)
             THEN <<file, SubSeq(file, 1, p), SubSeq(rest, 2, e - 1), Drop(rest, e)>>
             ELSE <<file, SubSeq(file, 1, p), <<>>, rest>>

\* ---------------------------------------------------------------- integers
\* An int is 64 bits wide; its value is kept as its decimal numeral (the digits
\* without leading zeros, "-" in front of a negative one), which is what
\* strconv.Atoi reads and what %v prints.

MaxInt64 == <<"9", "2", "2", "3", "3", "7", "2", "0", "3", "6",
              "8", "5", "4", "7", "7", "5", "8", "0", "7">>

MinInt64 == <<"-", "9", "2", "2", "3", "3", "7", "2", "0", "3", "6",
              "8", "5", "4", "7", "7", "5", "8", "0", "8">>

RECURSIVE StripZeros(_)
StripZeros(ds) ==
    IF Len(ds) > 1 /\ ds[1] = "0" THEN StripZeros(Tail(ds)) ELSE ds

\* a <= b for numerals of non-negative values.
RECURSIVE LexLeq(_, _)
LexLeq(a, b) ==
    IF a = <<>> THEN TRUE
    ELSE IF DigitVal(a[1]) # DigitVal(b[1]) THEN DigitVal(a[1]) < DigitVal(b[1])
    ELSE LexLeq(Tail(a), Tail(b))

NumLeq(a, b) == \/ Len(a) < Len(b)
                \/ Len(a) = Len(b) /\ LexLeq(a, b)

\* strconv.Atoi on a string of digits: the value, or a range error.
Atoi(ds) ==
    IF NumLeq(StripZeros(ds), MaxInt64)
    THEN [err |-> FALSE, val |-> StripZeros(ds)]
    ELSE [err |-> TRUE, val |-> MaxInt64]

RECURSIVE Increment(_)
Increment(ds) ==
    IF ds = <<>> THEN <<"1">>
    ELSE IF Last(ds) = "9" THEN Increment(Front(ds)) \o <<"0">>
    ELSE Front(ds) \o <<Digits[DigitVal(Last(ds)) + 2]>>

\* i+1 in 64 bits, for i >= 0: the sum wraps at the top of the range.
PlusOne(val) == IF val = MaxInt64 THEN MinInt64
                ELSE IF val = <<"0">> THEN <<"1">>
                ELSE Increment(val)

\* fmt.Sprintf("%s(%v)%s", stem, n, ext)
SprintfName(stem, n, ext) == stem \o <<"(">> \o n \o <<")">> \o ext

\* -------------------------------------------------------- getUniqeFilename

\* os.Stat(filepath.Join(path, file)) against a directory holding the names
\* dir, of which those in bad cannot be stat'ed (a symlink loop, say).
Stat(dir, bad, file) ==
    IF file \in bad THEN "error"
    ELSE IF file \in dir THEN "ok"
    ELSE "notexist"

IsNotExist(err) == err = "notexist"

\* The candidate the recursive call is made with, or a fatal exit.
NextCandidate(file) ==
    LET matches == FindStringSubmatch(file)
    IN  IF matches = <<>> \/ Len(matches) # 4
        THEN [fatal |-> TRUE, name |-> file]
        ELSE IF matches[3] # <<>> /\ Atoi(matches[3]).err
        THEN [fatal |-> TRUE, name |-> file]
        ELSE LET i == IF matches[3] # <<>> THEN Atoi(matches[3]).val ELSE <<"0">>
             IN  [fatal |-> FALSE,
                  name  |-> SprintfName(matches[2], PlusOne(i), matches[4])]

\* A getUniqeFilename that hands the desired name back without looking.
getUniqeFilenameUnchecked(dir, bad, file) ==
    [fatal |-> FALSE, name |-> file, statErr |-> FALSE]

\* getUniqeFilename(path, file): the name returned, or the fatal exit; statErr
\* tells whether an os.Stat on the way failed with an error that was passed over.
RECURSIVE getUniqeFilename(_, _, _)
getUniqeFilename(dir, bad, file) ==
    IF IsNotExist(Stat(dir, bad, file))
    THEN [fatal |-> FALSE, name |-> file, statErr |-> FALSE]
    ELSE LET next == NextCandidate(file)
             here == Stat(dir, bad, file) = "error"
         IN  IF next.fatal
             THEN [fatal |-> TRUE, name |-> file, statErr |-> here]
             ELSE LET r == getUniqeFilename(dir, bad, next.name)
                  IN  [fatal |-> r.fatal, name |-> r.name,
                       statErr |-> here \/ r.statErr]

\* ------------------------------------------------------------- name pools

RECURSIVE Numeral(_)
Numeral(n) == IF n < 10 THEN <<Digits[n + 1]>>
              ELSE Numeral(n \div 10) \o <<Digits[(n % 10) + 1]>>

Stems == {<<"a">>}

Exts == {<<>>, <<".", "t">>}

PlainNames == {s \o e : s \in Stems, e \in Exts}

ChainNames == {SprintfName(s, Numeral(k), e) : s \in Stems, k \in 1..MaxChain, e \in Exts}

\* Names off the plain pattern: a counter with a leading zero, the largest int
\* and the first number past it, a newline in the stem, two dots, two counters.
OddNames == {
    <<"a", "(", "0", "1", ")", ".", "t">>,
    SprintfName(<<"a">>, MaxInt64, <<".", "t">>),
    SprintfName(<<"a">>, Increment(MaxInt64), <<".", "t">>),
    <<"a", "\n", "b">>,
    <<"a", ".", "b", ".", "t">>,
    <<"a", "(", "1", ")", "(", "2", ")">> }

NamePool == PlainNames \cup ChainNames \cup OddNames


\* ------------------------------------------------ gmailDownloadAttachments

\* Page tokens the server hands out.
Tokens == {"p", "q"}

\* File names of message parts: none, a plain name, a name whose counter is
\* past the int range.
BigName == SprintfName(<<"a">>, Increment(MaxInt64), <<".", "t">>)

PartNames == {<<>>, <<"a", ".", "t">>, BigName}

\* Sequences over S of length 0..n.
SeqsUpTo(S, n) == UNION {[1..k -> S] : k \in 0..n}

\* A request that never carries the page token.
RequestTokenDropped(tok) == ""

\* The token a list request carries: PageToken is set only when pageToken is
\* not empty, so the first request carries none.
RequestToken(tok) == IF tok # "" THEN tok ELSE ""

\* The loop goes on while the response names a next page.
LastPage(r) == r.next = ""

\* A part is an attachment when its file name is not empty.
IsAttachment(part) == part # <<>>

\* A step of the run failed: the process ends (log.Fatalf).
Fatal(what) ==
    /\ wPc' = "exit"
    /\ failure' = IF failure = "none" THEN what ELSE failure
    /\ atFailure' = IF failure = "none" THEN <<apiCalls', Len(written')>>
                    ELSE atFailure

WalkStart ==
    /\ outDir \in SUBSET {<<"a", ".", "t">>, <<"a", "(", "1", ")", ".", "t">>}
    /\ badNames \in {{}} \cup {{n} : n \in outDir}
    /\ wPc = "list"
    /\ pageToken = ""
    /\ resp = [ids |-> <<>>, next |-> ""]
    /\ msgIdx = 0
    /\ parts = <<>>
    /\ partIdx = 0
    /\ name = <<>>
    /\ totalMsg = 0
    /\ totalAtt = 0
    /\ listLog = <<>>
    /\ fetchLog = <<>>
    /\ written = <<>>
    /\ clobbered = FALSE
    /\ scanned = 0
    /\ apiCalls = 0
    /\ reported = <<>>
    /\ failure = "none"
    /\ atFailure = <<>>

\* req.Do() of the list request answers with a page of message references.
ListOk ==
    /\ wPc = "list"
    /\ \E n \in 0..MaxMsgs, nxt \in Tokens \cup {""} :
          /\ Len(listLog) + 1 = MaxPages => nxt = ""
          /\ LET ids == [i \in 1..n |-> <<Len(listLog) + 1, i>>]
             IN  /\ resp' = [ids |-> ids, next |-> nxt]
                 /\ listLog' = Append(listLog,
                        [tok |-> RequestToken(pageToken), ids |-> ids, next |-> nxt])
    /\ apiCalls' = apiCalls + 1
    /\ msgIdx' = 1
    /\ wPc' = "msg"
    /\ UNCHANGED <<outDir, badNames, pageToken, parts, partIdx, name, totalMsg,
                   totalAtt, fetchLog, written, clobbered, scanned, reported,
                   failure, atFailure>>
    /\ UNCHANGED notWalk

ListFail ==
    /\ wPc = "list"
    /\ apiCalls' = apiCalls + 1
    /\ UNCHANGED written
    /\ Fatal("list")
    /\ UNCHANGED <<outDir, badNames, pageToken, resp, msgIdx, parts, partIdx,
                   name, totalMsg, totalAtt, listLog, fetchLog, clobbered,
                   scanned, reported>>
    /\ UNCHANGED notWalk

\* Messages.Get of the next reference of the page answers with the message.
GetMessageOk ==
    /\ wPc = "msg"
    /\ msgIdx <= Len(resp.ids)
    /\ \E ps \in SeqsUpTo(PartNames, MaxParts) : parts' = ps
    /\ apiCalls' = apiCalls + 1
    /\ fetchLog' = Append(fetchLog, resp.ids[msgIdx])
    /\ totalMsg' = totalMsg + 1
    /\ partIdx' = 1
    /\ wPc' = "part"
    /\ UNCHANGED <<outDir, badNames, pageToken, resp, msgIdx, name, totalAtt,
                   listLog, written, clobbered, scanned, reported, failure,
                   atFailure>>
    /\ UNCHANGED notWalk

GetMessageFail ==
    /\ wPc = "msg"
    /\ msgIdx <= Len(resp.ids)
    /\ apiCalls' = apiCalls + 1
    /\ UNCHANGED written
    /\ Fatal("get")
    /\ UNCHANGED <<outDir, badNames, pageToken, resp, msgIdx, parts, partIdx,
                   name, totalMsg, totalAtt, listLog, fetchLog, clobbered,
                   scanned, reported>>
    /\ UNCHANGED notWalk

\* The page is done: the next page is asked for with the token of this one.
NextPage ==
    /\ wPc = "msg"
    /\ msgIdx > Len(resp.ids)
    /\ ~LastPage(resp)
    /\ pageToken' = resp.next
    /\ wPc' = "list"
    /\ UNCHANGED <<outDir, badNames, resp, msgIdx, parts, partIdx, name,
                   totalMsg, totalAtt, listLog, fetchLog, written, clobbered,
                   scanned, apiCalls, reported, failure, atFailure>>
    /\ UNCHANGED notWalk

\* The last page is done: the totals are logged.
Finish ==
    /\ wPc = "msg"
    /\ msgIdx > Len(resp.ids)
    /\ LastPage(resp)
    /\ reported' = <<totalAtt, totalMsg>>
    /\ wPc' = "done"
    /\ UNCHANGED <<outDir, badNames, pageToken, resp, msgIdx, parts, partIdx,
                   name, totalMsg, totalAtt, listLog, fetchLog, written,
                   clobbered, scanned, apiCalls, failure, atFailure>>
    /\ UNCHANGED notWalk

\* A part without a file name is passed over.
SkipPart ==
    /\ wPc = "part"
    /\ partIdx <= Len(parts)
    /\ ~IsAttachment(parts[partIdx])
    /\ partIdx' = partIdx + 1
    /\ UNCHANGED <<outDir, badNames, wPc, pageToken, resp, msgIdx, parts, name,
                   totalMsg, totalAtt, listLog, fetchLog, written, clobbered,
                   scanned, apiCalls, reported, failure, atFailure>>
    /\ UNCHANGED notWalk

\* The parts of the message are done.
NextMessage ==
    /\ wPc = "part"
    /\ partIdx > Len(parts)
    /\ msgIdx' = msgIdx + 1
    /\ wPc' = "msg"
    /\ UNCHANGED <<outDir, badNames, pageToken, resp, parts, partIdx, name,
                   totalMsg, totalAtt, listLog, fetchLog, written, clobbered,
                   scanned, apiCalls, reported, failure, atFailure>>
    /\ UNCHANGED notWalk

\* Attachments.Get of a part with a file name.
GetAttachmentOk ==
    /\ wPc = "part"
    /\ partIdx <= Len(parts)
    /\ IsAttachment(parts[partIdx])
    /\ totalAtt' = totalAtt + 1
    /\ scanned' = scanned + 1
    /\ apiCalls' = apiCalls + 1
    /\ wPc' = "decode"
    /\ UNCHANGED <<outDir, badNames, pageToken, resp, msgIdx, parts, partIdx,
                   name, totalMsg, listLog, fetchLog, written, clobbered,
                   reported, failure, atFailure>>
    /\ UNCHANGED notWalk

GetAttachmentFail ==
    /\ wPc = "part"
    /\ partIdx <= Len(parts)
    /\ IsAttachment(parts[partIdx])
    /\ totalAtt' = totalAtt + 1
    /\ scanned' = scanned + 1
    /\ apiCalls' = apiCalls + 1
    /\ UNCHANGED written
    /\ Fatal("attachment")
    /\ UNCHANGED <<outDir, badNames, pageToken, resp, msgIdx, parts, partIdx,
                   name, totalMsg, listLog, fetchLog, clobbered, reported>>
    /\ UNCHANGED notWalk

\* b64.URLEncoding.DecodeString of the attachment's data.
DecodeOk ==
    /\ wPc = "decode"
    /\ wPc' = "resolve"
    /\ UNCHANGED <<outDir, badNames, pageToken, resp, msgIdx, parts, partIdx,
                   name, totalMsg, totalAtt, listLog, fetchLog, written,
                   clobbered, scanned, apiCalls, reported, failure, atFailure>>
    /\ UNCHANGED notWalk

DecodeFail ==
    /\ wPc = "decode"
    /\ UNCHANGED <<written, apiCalls>>
    /\ Fatal("decode")
    /\ UNCHANGED <<outDir, badNames, pageToken, resp, msgIdx, parts, partIdx,
                   name, totalMsg, totalAtt, listLog, fetchLog, clobbered,
                   scanned, reported>>
    /\ UNCHANGED notWalk

\* name := getUniqeFilename(outDir, part.Filename) returns. An os.Stat in it
\* that failed is the run's first failure when none came before; the run goes on.
ResolveOk ==
    /\ wPc = "resolve"
    /\ LET r == getUniqeFilename(outDir, badNames, parts[partIdx])
       IN  /\ ~r.fatal
           /\ name' = r.name
           /\ failure' = IF failure = "none" /\ r.statErr THEN "stat" ELSE failure
           /\ atFailure' = IF failure = "none" /\ r.statErr
                           THEN <<apiCalls, Len(written)>> ELSE atFailure
    /\ wPc' = "write"
    /\ UNCHANGED <<outDir, badNames, pageToken, resp, msgIdx, parts, partIdx,
                   totalMsg, totalAtt, listLog, fetchLog, written, clobbered,
                   scanned, apiCalls, reported>>
    /\ UNCHANGED notWalk

\* getUniqeFilename ends the process (log.Fatalf).
ResolveFatal ==
    /\ wPc = "resolve"
    /\ getUniqeFilename(outDir, badNames, parts[partIdx]).fatal
    /\ UNCHANGED <<written, apiCalls>>
    /\ Fatal(IF getUniqeFilename(outDir, badNames, parts[partIdx]).statErr
             THEN "stat" ELSE "name")
    /\ UNCHANGED <<outDir, badNames, pageToken, resp, msgIdx, parts, partIdx,
                   name, totalMsg, totalAtt, listLog, fetchLog, clobbered,
                   scanned, reported>>
    /\ UNCHANGED notWalk

\* ioutil.WriteFile(filepath.Join(outDir, name), data, 0644)
WriteOk ==
    /\ wPc = "write"
    /\ outDir' = outDir \cup {name}
    /\ written' = Append(written, name)
    /\ clobbered' = (clobbered \/ name \in outDir)
    /\ wPc' = "chtimes"
    /\ UNCHANGED <<badNames, pageToken, resp, msgIdx, parts, partIdx, name,
                   totalMsg, totalAtt, listLog, fetchLog, scanned, apiCalls,
                   reported, failure, atFailure>>
    /\ UNCHANGED notWalk

\* The write fails, before or after the file was created.
WriteFail ==
    /\ wPc = "write"
    /\ \E created \in BOOLEAN :
          /\ outDir' = IF created THEN outDir \cup {name} ELSE outDir
          /\ clobbered' = (clobbered \/ (created /\ name \in outDir))
    /\ UNCHANGED <<written, apiCalls>>
    /\ Fatal("write")
    /\ UNCHANGED <<badNames, pageToken, resp, msgIdx, parts, partIdx, name,
                   totalMsg, totalAtt, listLog, fetchLog, scanned, reported>>
    /\ UNCHANGED notWalk

\* os.Chtimes of the file written.
ChtimesOk ==
    /\ wPc = "chtimes"
    /\ partIdx' = partIdx + 1
    /\ wPc' = "part"
    /\ UNCHANGED <<outDir, badNames, pageToken, resp, msgIdx, parts, name,
                   totalMsg, totalAtt, listLog, fetchLog, written, clobbered,
                   scanned, apiCalls, reported, failure, atFailure>>
    /\ UNCHANGED notWalk

ChtimesFail ==
    /\ wPc = "chtimes"
    /\ UNCHANGED <<written, apiCalls>>
    /\ Fatal("chtimes")
    /\ UNCHANGED <<outDir, badNames, pageToken, resp, msgIdx, parts, partIdx,
                   name, totalMsg, totalAtt, listLog, fetchLog, clobbered,
                   scanned, reported>>
    /\ UNCHANGED notWalk

WalkNext ==
    \/ ListOk \/ ListFail
    \/ GetMessageOk \/ GetMessageFail
    \/ NextPage \/ Finish
    \/ SkipPart \/ NextMessage
    \/ GetAttachmentOk \/ GetAttachmentFail
    \/ DecodeOk \/ DecodeFail
    \/ ResolveOk \/ ResolveFatal
    \/ WriteOk \/ WriteFail
    \/ ChtimesOk \/ ChtimesFail


\* ----------------------------------------------- newOAuthClient, tokenFromWeb

\* The state value of this run (randState) and one that differs from it.
RandState == "st1"

States == {RandState, "st0"}

Paths == {"/", "/favicon.ico"}

\* Values of the code parameter; "" is what FormValue gives when it is absent.
Codes == {"", "c1", "c2"}

Requests == [path : Paths, state : States, code : Codes]

Handlers == 1..MaxReqs

\* The token the cache file holds at the start, when it holds one, and the
\* token the exchange gives.
CachedTok == "tok-cached"

WebTok == "tok-web"

\* A tokenFromFile that reads the cache file whatever the flag says.
tokenFromFileFlagIgnored(flag, file) ==
    IF file = "missing" THEN [err |-> TRUE, tok |-> "", opened |-> FALSE]
    ELSE IF file = "garbage" THEN [err |-> TRUE, tok |-> "", opened |-> TRUE]
    ELSE [err |-> FALSE, tok |-> file, opened |-> TRUE]

\* tokenFromFile(file): the token read, or an error: the flag is off, the file
\* does not open, or it does not decode.
tokenFromFile(flag, file) ==
    IF ~flag THEN [err |-> TRUE, tok |-> "", opened |-> FALSE]
    ELSE IF file = "missing" THEN [err |-> TRUE, tok |-> "", opened |-> FALSE]
    ELSE IF file = "garbage" THEN [err |-> TRUE, tok |-> "", opened |-> TRUE]
    ELSE [err |-> FALSE, tok |-> file, opened |-> TRUE]

\* A handler that does not compare the state parameter.
HandlerStateUnchecked(req) ==
    IF req.path = "/favicon.ico" THEN [status |-> 404, send |-> FALSE]
    ELSE IF req.code # "" THEN [status |-> 200, send |-> TRUE]
    ELSE [status |-> 500, send |-> FALSE]

\* The handler of the callback server up to its answer: the status it answers
\* with, and whether it goes on to send the code on ch.
Handler(req) ==
    IF req.path = "/favicon.ico" THEN [status |-> 404, send |-> FALSE]
    ELSE IF req.state # RandState THEN [status |-> 500, send |-> FALSE]
    ELSE IF req.code # "" THEN [status |-> 200, send |-> TRUE]
    ELSE [status |-> 500, send |-> FALSE]

\* newOAuthClient saves the token of the web flow when the flag is set.
SavesToken(flag) == flag

AuthStart ==
    /\ cacheToken \in BOOLEAN
    /\ cacheFile \in {"missing", "garbage", CachedTok}
    /\ cacheFile0 = cacheFile
    /\ aPc = "start"
    /\ token = ""
    /\ listener = "none"
    /\ code = ""
    /\ hReq = [h \in Handlers |-> [path |-> "/", state |-> "st0", code |-> ""]]
    /\ hPc = [h \in Handlers |-> "free"]
    /\ hStatus = [h \in Handlers |-> 0]
    /\ sender = 0
    /\ late = {}
    /\ urlOpened = FALSE
    /\ exchanges = 0
    /\ cacheReads = 0
    /\ saves = 0
    /\ saveFailed = FALSE

\* tokenFromFile gives a token: it is the client's token.
UseCachedToken ==
    /\ aPc = "start"
    /\ ~tokenFromFile(cacheToken, cacheFile).err
    /\ token' = tokenFromFile(cacheToken, cacheFile).tok
    /\ cacheReads' = cacheReads + 1
    /\ aPc' = "done"
    /\ UNCHANGED <<cacheToken, cacheFile, cacheFile0, listener, code, hReq,
                   hPc, hStatus, sender, late, urlOpened, exchanges, saves,
                   saveFailed>>
    /\ UNCHANGED notAuth

\* tokenFromFile gives an error: tokenFromWeb starts the callback server, opens
\* the authorization URL and waits on ch.
StartWebFlow ==
    /\ aPc = "start"
    /\ tokenFromFile(cacheToken, cacheFile).err
    /\ cacheReads' = IF tokenFromFile(cacheToken, cacheFile).opened
                     THEN cacheReads + 1 ELSE cacheReads
    /\ listener' = "open"
    /\ urlOpened' = TRUE
    /\ aPc' = "recv"
    /\ UNCHANGED <<cacheToken, cacheFile, cacheFile0, token, code, hReq, hPc,
                   hStatus, sender, late, exchanges, saves, saveFailed>>
    /\ UNCHANGED notAuth

\* A request reaches the open listener; its handler runs up to its answer, and
\* then is done or blocks sending the code on the unbuffered ch.
Serve(h, req) ==
    /\ listener = "open"
    /\ aPc # "exit"
    /\ hPc[h] = "free"
    /\ h > 1 => hPc[h - 1] # "free"
    /\ hReq' = [hReq EXCEPT ![h] = req]
    /\ hStatus' = [hStatus EXCEPT ![h] = Handler(req).status]
    /\ hPc' = [hPc EXCEPT ![h] = IF Handler(req).send THEN "send" ELSE "done"]
    /\ late' = IF sender # 0 THEN late \cup {h} ELSE late
    /\ UNCHANGED <<cacheToken, cacheFile, cacheFile0, aPc, token, listener,
                   code, sender, urlOpened, exchanges, cacheReads, saves,
                   saveFailed>>
    /\ UNCHANGED notAuth

\* code := <-ch meets the ch <- code of one blocked handler.
Receive(h) ==
    /\ aPc = "recv"
    /\ hPc[h] = "send"
    /\ code' = hReq[h].code
    /\ sender' = h
    /\ hPc' = [hPc EXCEPT ![h] = "done"]
    /\ aPc' = "exchange"
    /\ UNCHANGED <<cacheToken, cacheFile, cacheFile0, token, listener, hReq,
                   hStatus, late, urlOpened, exchanges, cacheReads, saves,
                   saveFailed>>
    /\ UNCHANGED notAuth

\* config.Exchange(ctx, code) gives the token.
ExchangeOk ==
    /\ aPc = "exchange"
    /\ exchanges' = exchanges + 1
    /\ token' = WebTok
    /\ aPc' = "close"
    /\ UNCHANGED <<cacheToken, cacheFile, cacheFile0, listener, code, hReq,
                   hPc, hStatus, sender, late, urlOpened, cacheReads, saves,
                   saveFailed>>
    /\ UNCHANGED notAuth

\* config.Exchange fails: log.Fatalf ends the process, handlers included.
ExchangeFail ==
    /\ aPc = "exchange"
    /\ exchanges' = exchanges + 1
    /\ aPc' = "exit"
    /\ UNCHANGED <<cacheToken, cacheFile, cacheFile0, token, listener, code,
                   hReq, hPc, hStatus, sender, late, urlOpened, cacheReads,
                   saves, saveFailed>>
    /\ UNCHANGED notAuth

\* The deferred ts.Close() closes the listener ...
CloseListener ==
    /\ aPc = "close"
    /\ listener' = "closed"
    /\ aPc' = "wait"
    /\ UNCHANGED <<cacheToken, cacheFile, cacheFile0, token, code, hReq, hPc,
                   hStatus, sender, late, urlOpened, exchanges, cacheReads,
                   saves, saveFailed>>
    /\ UNCHANGED notAuth

\* ... and returns when no request is outstanding; tokenFromWeb returns, and
\* newOAuthClient saves the token or is done.
CloseReturns ==
    /\ aPc = "wait"
    /\ \A h \in Handlers : hPc[h] # "send"
    /\ aPc' = IF SavesToken(cacheToken) THEN "save" ELSE "done"
    /\ UNCHANGED <<cacheToken, cacheFile, cacheFile0, token, listener, code,
                   hReq, hPc, hStatus, sender, late, urlOpened, exchanges,
                   cacheReads, saves, saveFailed>>
    /\ UNCHANGED notAuth

\* saveToken(cacheFile, token) writes the token.
SaveOk ==
    /\ aPc = "save"
    /\ cacheFile' = token
    /\ saves' = saves + 1
    /\ aPc' = "done"
    /\ UNCHANGED <<cacheToken, cacheFile0, token, listener, code, hReq, hPc,
                   hStatus, sender, late, urlOpened, exchanges, cacheReads,
                   saveFailed>>
    /\ UNCHANGED notAuth

\* os.Create fails in saveToken: a warning is logged.
SaveFail ==
    /\ aPc = "save"
    /\ saves' = saves + 1
    /\ saveFailed' = TRUE
    /\ aPc' = "done"
    /\ UNCHANGED <<cacheToken, cacheFile, cacheFile0, token, listener, code,
                   hReq, hPc, hStatus, sender, late, urlOpened, exchanges,
                   cacheReads>>
    /\ UNCHANGED notAuth

AuthNext ==
    \/ UseCachedToken
    \/ StartWebFlow
    \/ \E h \in Handlers, req \in Requests : Serve(h, req)
    \/ \E h \in Handlers : Receive(h)
    \/ ExchangeOk \/ ExchangeFail
    \/ CloseListener
    \/ CloseReturns
    \/ SaveOk \/ SaveFail


\* --------------------------------------------------------------------- gobin

Formats == {"hexx", "hex", "dec", "shexx", "shex"}

HexDigits == <<"0", "1", "2", "3", "4", "5", "6", "7", "8", "9",
               "a", "b", "c", "d", "e", "f">>

\* The printable ASCII characters, 0x20 to 0x7e, in order (the grave accent,
\* 0x60, is spelled out).
Printable == <<
    " ", "!", "\"", "#", "$", "%", "&", "'", "(", ")", "*", "+", ",", "-", ".", "/",
    "0", "1", "2", "3", "4", "5", "6", "7", "8", "9", ":", ";", "<", "=", ">", "?",
    "@", "A", "B", "C", "D", "E", "F", "G", "H", "I", "J", "K", "L", "M", "N", "O",
    "P", "Q", "R", "S", "T", "U", "V", "W", "X", "Y", "Z", "[", "\\", "]", "^", "_",
    "GRAVE", "a", "b", "c", "d", "e", "f", "g", "h", "i", "j", "k", "l", "m", "n", "o",
    "p", "q", "r", "s", "t", "u", "v", "w", "x", "y", "z", "{", "|", "}", "~" >>

\* Bytes of input files: NUL, newline, the double quote, the backslash, a
\* letter, and 0xff (which is never part of a UTF-8 sequence, so %+q quotes the
\* bytes modelled here one by one).
Bytes == {0, 10, 34, 92, 107, 255}

\* %x of a byte slice: two digits per byte.
Hex2(b) == <<HexDigits[(b \div 16) + 1], HexDigits[(b % 16) + 1]>>

\* %x of a byte: no leading zero.
Hex1(b) == IF b < 16 THEN <<HexDigits[b + 1]>> ELSE Hex2(b)

\* %d of a byte.
Dec(b) == Numeral(b)

\* strconv's quoting of one byte for %+q (ASCII only).
QuoteByte(b) ==
    IF b = 34 THEN <<"\\", "\"">>
    ELSE IF b = 92 THEN <<"\\", "\\">>
    ELSE IF b = 7 THEN <<"\\", "a">>
    ELSE IF b = 8 THEN <<"\\", "b">>
    ELSE IF b = 9 THEN <<"\\", "t">>
    ELSE IF b = 10 THEN <<"\\", "n">>
    ELSE IF b = 11 THEN <<"\\", "v">>
    ELSE IF b = 12 THEN <<"\\", "f">>
    ELSE IF b = 13 THEN <<"\\", "r">>
    ELSE IF b >= 32 /\ b <= 126 THEN <<Printable[b - 31]>>
    ELSE <<"\\", "x">> \o Hex2(b)

RECURSIVE Join(_, _)
\* strings.Join(items, sep)
Join(items, sep) ==
    IF items = <<>> THEN <<>>
    ELSE IF Len(items) = 1 THEN items[1]
    ELSE items[1] \o sep \o Join(Tail(items), sep)

\* getParents(format)
getParents(f) == IF f \in {"shexx", "shex"} THEN <<"(", ")">> ELSE <<"{", "}">>

\* The delimiter of the string formats: "," when the chunk fills its capacity.
Delim(n, c) == IF n = c THEN <<",">> ELSE <<"+">>

\* getGetLine(format)(chunk), for a chunk of capacity c.
getLine(f, chunk, c) ==
    LET n == Len(chunk)
    IN  IF f = "hexx"
        THEN <<"\t">> \o Join([i \in 1..n |-> <<"0", "x">> \o Hex2(chunk[i])], <<",", " ">>) \o <<",">>
        ELSE IF f = "hex"
        THEN <<"\t">> \o Join([i \in 1..n |-> <<"0", "x">> \o Hex1(chunk[i])], <<",", " ">>) \o <<",">>
        ELSE IF f = "dec"
        THEN <<"\t">> \o Join([i \in 1..n |-> Dec(chunk[i])], <<",", " ">>) \o <<",">>
        ELSE IF f = "shexx"
        THEN <<"\t", "\"">> \o Join([i \in 1..n |-> <<"\\", "x">> \o Hex2(chunk[i])], <<>>)
                 \o <<"\"">> \o Delim(n, c)
        ELSE <<"\t", "\"">> \o Join([i \in 1..n |-> QuoteByte(chunk[i])], <<>>)
                 \o <<"\"">> \o Delim(n, c)

Min(a, b) == IF a < b THEN a ELSE b

\* read(fileInName): the file's bytes in a slice whose capacity is the length
\* or more, as the library's ReadFile leaves it.
GenStart ==
    /\ format \in Formats
    /\ step \in 1..MaxStep
    /\ buffer \in SeqsUpTo(Bytes, MaxLen)
    /\ bufCap \in {Len(buffer), Len(buffer) + 1}
    /\ gI = 0
    /\ gOut = <<>>
    /\ gOpen = getParents(format)[1]
    /\ gClose = ""
    /\ gPc = "emit"

\* One turn of the loop: Fprintln(w, indent, getLine(buffer[from:to])).
EmitLine ==
    /\ gPc = "emit"
    /\ gI < Len(buffer)
    /\ LET to == Min(gI + step, Len(buffer))
       IN  gOut' = gOut \o <<" ">>
                       \o getLine(format, SubSeq(buffer, gI + 1, to), bufCap - gI)
                       \o <<"\n">>
    /\ gI' = gI + step
    /\ UNCHANGED <<format, step, buffer, bufCap, gOpen, gClose, gPc>>
    /\ UNCHANGED notGen

\* The loop is over: the closing parent is written.
EmitClose ==
    /\ gPc = "emit"
    /\ gI >= Len(buffer)
    /\ gClose' = getParents(format)[2]
    /\ gPc' = "done"
    /\ UNCHANGED <<format, step, buffer, bufCap, gI, gOut, gOpen>>
    /\ UNCHANGED notGen

GenNext == EmitLine \/ EmitClose

\* ---------------------------------------------------------------- SpecName

NameStart ==
    /\ nFile \in NamePool
    /\ nDir \in SUBSET (PlainNames \cup ChainNames \cup {nFile})
    /\ nBad \in {{}} \cup {{n} : n \in nDir \cap PlainNames}
    /\ nPc = "call"
    /\ nRes = <<>>
    /\ nCalls = 0

\* One call of getUniqeFilename(dir, nFile).
NameCall ==
    /\ nPc = "call"
    /\ LET r == getUniqeFilename(nDir, nBad, nFile)
       IN  /\ nPc' = IF r.fatal THEN "fatal" ELSE "returned"
           /\ nRes' = IF r.fatal THEN <<>> ELSE r.name
    /\ nCalls' = nCalls + 1
    /\ UNCHANGED <<nDir, nBad, nFile>>
    /\ UNCHANGED notName

\* The caller creates the returned name and asks again, for the name returned.
NameAgain ==
    /\ nPc = "returned"
    /\ nCalls < MaxCalls
    /\ nDir' = nDir \cup {nRes}
    /\ nFile' = nRes
    /\ nPc' = "call"
    /\ UNCHANGED <<nBad, nRes, nCalls>>
    /\ UNCHANGED notName

NameNext == NameCall \/ NameAgain

NameInit == NameStart /\ WalkIdle /\ AuthIdle /\ GenIdle

SpecName == NameInit /\ [][NameNext]_vars

\* ---------------------------------------------------------------- SpecWalk

WalkInit == WalkStart /\ NameIdle /\ AuthIdle /\ GenIdle

SpecWalk == WalkInit /\ [][WalkNext]_vars

\* ---------------------------------------------------------------- SpecAuth

AuthInit == AuthStart /\ NameIdle /\ WalkIdle /\ GenIdle

SpecAuth == AuthInit /\ [][AuthNext]_vars

\* ----------------------------------------------------------------- SpecGen

GenInit == GenStart /\ NameIdle /\ WalkIdle /\ AuthIdle

SpecGen == GenInit /\ [][GenNext]_vars

\* ------------------------------------------------- the disambiguator's claims

\* A name as the specification reads it: the extension is the final
\* dot-delimited segment with its dot (or nothing), the counter a parenthesised
\* integer directly before it, the stem what is left.
LastDot(s) == IF \E i \in 1..Len(s) : s[i] = "."
              THEN CHOOSE i \in 1..Len(s) :
                       s[i] = "." /\ \A j \in (i + 1)..Len(s) : s[j] # "."
              ELSE 0

ReadExt(s) == IF LastDot(s) = 0 THEN <<>> ELSE Drop(s, LastDot(s) - 1)

ReadBody(s) == IF LastDot(s) = 0 THEN s ELSE SubSeq(s, 1, LastDot(s) - 1)

\* The index of the "(" opening a parenthesised integer that ends s, or 0.
CounterStart(s) ==
    IF /\ Len(s) >= 3
       /\ Last(s) = ")"
       /\ \E i \in 1..(Len(s) - 2) :
             s[i] = "(" /\ \A j \in (i + 1)..(Len(s) - 1) : IsDigit(s[j])
    THEN CHOOSE i \in 1..(Len(s) - 2) :
             s[i] = "(" /\ \A j \in (i + 1)..(Len(s) - 1) : IsDigit(s[j])
    ELSE 0

ReadCounter(s) ==
    LET b == ReadBody(s)
    IN  IF CounterStart(b) = 0 THEN <<>>
        ELSE SubSeq(b, CounterStart(b) + 1, Len(b) - 1)

ReadStem(s) ==
    LET b == ReadBody(s)
    IN  IF CounterStart(b) = 0 THEN b ELSE SubSeq(b, 1, CounterStart(b) - 1)

\* stem(1)ext .. stem(k)ext are all present and stem(k+1)ext is not.
ChainOf(dir, stem, ext, k) ==
    /\ \A j \in 1..k : SprintfName(stem, Numeral(j), ext) \in dir
    /\ SprintfName(stem, Numeral(k + 1), ext) \notin dir

\* C2: for every directory and every desired name, getUniqeFilename returns
\* (the process does not end in it), the name returned is one os.Stat reports
\* as not existing, and a desired name that does not exist is returned as it is.
ReturnsAbsentName ==
    nPc # "call" =>
        /\ nPc = "returned"
        /\ IsNotExist(Stat(nDir, nBad, nRes))
        /\ (IsNotExist(Stat(nDir, nBad, nFile)) => nRes = nFile)

\* C3: a present name without a counter, with stem(1)ext .. stem(k)ext present
\* and stem(k+1)ext absent, yields stem(k+1)ext; a present name with a counter
\* (the previous output among them) has the counter read and replaced by the
\* next value: the result is stem(n)ext again, and stem(counter+1)ext when
\* that name is free.
YieldsNextCounter ==
    (nPc # "call" /\ nFile \in nDir) =>
        LET stem == ReadStem(nFile)
            ext  == ReadExt(nFile)
            c    == ReadCounter(nFile)
        IN  IF c = <<>>
            THEN \A k \in 0..(MaxChain + MaxCalls) :
                     ChainOf(nDir, stem, ext, k) =>
                         /\ nPc = "returned"
                         /\ nRes = SprintfName(stem, Numeral(k + 1), ext)
            ELSE /\ nPc = "returned"
                 /\ ReadStem(nRes) = stem
                 /\ ReadExt(nRes) = ext
                 /\ ReadCounter(nRes) # <<>>
                 /\ (SprintfName(stem, Increment(StripZeros(c)), ext) \notin nDir
                        => nRes = SprintfName(stem, Increment(StripZeros(c)), ext))

\* ------------------------------------------------------ the walker's claims

RECURSIVE AllIds(_)
\* The message references of the pages of a list log, in order.
AllIds(log) == IF log = <<>> THEN <<>>
               ELSE AllIds(Front(log)) \o Last(log).ids

IsPrefix(s, t) == Len(s) <= Len(t) /\ s = SubSeq(t, 1, Len(s))

\* C1: a write goes to a name that is absent from the output directory when
\* it is written: nothing that was there before the run or written earlier in
\* it is overwritten, and the files written carry distinct names.
NoOverwrite ==
    /\ wPc = "write" => name \notin outDir
    /\ ~clobbered
    /\ \A i \in 1..Len(written) : written[i] \in outDir
    /\ \A i, j \in 1..Len(written) : written[i] = written[j] => i = j

\* The same file name was written three times over a directory that already
\* held it: the second and third copy went to names of their own.
NoOverwriteWitness ==
    /\ Len(written) = 3
    /\ written[3] = <<"a", "(", "3", ")", ".", "t">>
    /\ Cardinality(outDir) = 4

\* C4: on a run in which nothing fails, the first list request carries no page
\* token, each later one the token of the response before it, and the run stops
\* at the first response without one; the messages fetched are the references
\* returned, each once and in order; the totals line gives the number of
\* references returned and the number of parts with a file name, which is the
\* number of files written.
PagesThenTotals ==
    /\ failure = "none" => IsPrefix(fetchLog, AllIds(listLog))
    /\ (wPc = "done" /\ failure = "none") =>
          /\ Len(listLog) >= 1
          /\ listLog[1].tok = ""
          /\ \A i \in 2..Len(listLog) :
                /\ listLog[i - 1].next # ""
                /\ listLog[i].tok = listLog[i - 1].next
          /\ Last(listLog).next = ""
          /\ fetchLog = AllIds(listLog)
          /\ reported = <<scanned, Len(AllIds(listLog))>>
          /\ scanned = Len(written)

\* A run over two pages that ended with two messages and two files.
PagesThenTotalsWitness ==
    /\ wPc = "done"
    /\ failure = "none"
    /\ Len(listLog) = 2
    /\ listLog[2].tok = "q"
    /\ reported = <<2, 2>>

\* C5: the first failure of a step (list, get, attachment, decode, stat, write,
\* chtimes) ends the process: after it no API call is issued, no file is
\* written and no totals are reported; totals are reported only when every
\* attachment met was written.
FirstFailureEndsRun ==
    /\ failure # "none" =>
          /\ atFailure = <<apiCalls, Len(written)>>
          /\ reported = <<>>
    /\ reported # <<>> => Len(written) = scanned

\* --------------------------------------------------- the token manager's claims

Served(h) == hPc[h] # "free"

\* C6, as stated: a request whose state differs from the expected one is
\* answered with 500 and its code never reaches the main flow; the code the
\* main flow receives is that of a request with the matching state and a code.
MismatchAnswered500 ==
    /\ \A h \in Handlers :
          (Served(h) /\ hReq[h].state # RandState) =>
              /\ hStatus[h] = 500
              /\ hPc[h] # "send"
              /\ sender # h
    /\ sender # 0 =>
          /\ hReq[sender].state = RandState
          /\ hReq[sender].code # ""
          /\ code = hReq[sender].code

\* C6, amended: a request whose state differs from the expected one never has
\* its code handed to the main flow, and is answered with 500, or with 404 when
\* its path is /favicon.ico; the code the main flow receives is that of a
\* request with the matching state and a code.
MismatchRejected ==
    /\ \A h \in Handlers :
          (Served(h) /\ hReq[h].state # RandState) =>
              /\ hStatus[h] = IF hReq[h].path = "/favicon.ico" THEN 404 ELSE 500
              /\ hPc[h] # "send"
              /\ sender # h
    /\ sender # 0 =>
          /\ hReq[sender].state = RandState
          /\ hReq[sender].code # ""
          /\ code = hReq[sender].code

\* Two requests with a code and the wrong state were answered, one of them
\* for the favicon, and the main flow has the code of a third request.
MismatchRejectedWitness ==
    /\ sender = 3
    /\ code = "c2"
    /\ hReq[1] = [path |-> "/", state |-> "st0", code |-> "c1"]
    /\ hStatus[1] = 500
    /\ hReq[2] = [path |-> "/favicon.ico", state |-> "st0", code |-> "c1"]
    /\ hStatus[2] = 404

\* C7: once the first code has been handed over, no later request is handled:
\* none is answered with the success page and none sends or tries to send.
StopsAfterFirstCode ==
    \A h \in late : hStatus[h] # 200 /\ hPc[h] # "send"

\* C8: with caching on and a cache file that opens and decodes, its token is
\* used and no listener, URL, exchange or cache write happens; in every other
\* case the web flow runs and its token is saved exactly when caching is on,
\* after the exchange succeeded; a failed save leaves the run going with the new
\* token; with caching off the cache file is neither read nor written.
TokenRule ==
    LET hit == cacheToken /\ cacheFile0 \notin {"missing", "garbage"}
    IN  /\ hit => /\ listener = "none"
                  /\ ~urlOpened
                  /\ exchanges = 0
                  /\ saves = 0
                  /\ cacheFile = cacheFile0
                  /\ aPc = "done" => token = cacheFile0
        /\ (~hit /\ aPc # "start") => listener # "none" /\ urlOpened
        /\ (~hit /\ aPc = "done") =>
              /\ token = WebTok
              /\ exchanges = 1
              /\ saves = IF cacheToken THEN 1 ELSE 0
              /\ (cacheToken /\ ~saveFailed) => cacheFile = WebTok
        /\ saves > 0 => token = WebTok
        /\ saveFailed => aPc = "done" /\ token = WebTok /\ cacheFile = cacheFile0
        /\ ~cacheToken => cacheReads = 0 /\ saves = 0 /\ cacheFile = cacheFile0

\* Caching is off and the cache file holds a token: the run ended with the
\* token of the web flow and the file untouched.
TokenRuleWitness ==
    /\ ~cacheToken
    /\ cacheFile0 = CachedTok
    /\ aPc = "done"
    /\ token = WebTok
    /\ cacheFile = CachedTok

\* C10: once a request with the matching state and a code has come, the main
\* flow receives a code, exchanges it and tokenFromWeb finishes: the run is
\* never left with ts.Close() waiting for a handler that is blocked sending on
\* ch, a state no step leads out of.
HandOffCompletes ==
    ~(aPc = "wait" /\ \E h \in Handlers : hPc[h] = "send")

\* ------------------------------------------------------ the generator's claim
\* The text between the parents is read back by the rules of Go: white space
\* separates tokens; a token is an integer literal, an interpreted string
\* literal, "+" or ",".

IsSpace(c) == c \in {" ", "\t", "\n"}

IsHexDigit(c) == \E i \in 1..16 : HexDigits[i] = c

HexVal(c) == (CHOOSE i \in 1..16 : HexDigits[i] = c) - 1

RECURSIVE WordLen(_)
\* The length of the run of digits and letters at the head of t.
WordLen(t) == IF t # <<>> /\ (IsHexDigit(t[1]) \/ t[1] = "x")
              THEN 1 + WordLen(Tail(t)) ELSE 0

RECURSIVE ValueOf(_, _)
\* The value of a string of digits in a base.
ValueOf(ds, base) == IF ds = <<>> THEN 0
                     ELSE ValueOf(Front(ds), base) * base + HexVal(Last(ds))

BadToken == [kind |-> "bad", bytes |-> <<>>]

\* An integer literal: 0x and hex digits, or a decimal without a leading zero.
NumToken(w) ==
    IF /\ Len(w) >= 3 /\ w[1] = "0" /\ w[2] = "x"
       /\ \A i \in 3..Len(w) : IsHexDigit(w[i])
    THEN [kind |-> "num", bytes |-> <<ValueOf(Drop(w, 2), 16)>>]
    ELSE IF (\A i \in 1..Len(w) : IsDigit(w[i])) /\ (Len(w) = 1 \/ w[1] # "0")
    THEN [kind |-> "num", bytes |-> <<ValueOf(w, 10)>>]
    ELSE BadToken

RECURSIVE ClosingQuote(_, _)
\* The index of the quote that closes the string literal opened at t[1], from
\* index i on, or 0.
ClosingQuote(t, i) ==
    IF i > Len(t) \/ t[i] = "\n" THEN 0
    ELSE IF t[i] = "\\" THEN ClosingQuote(t, i + 2)
    ELSE IF t[i] = "\"" THEN i
    ELSE ClosingQuote(t, i + 1)

Escapes == [c \in {"a", "b", "t", "n", "v", "f", "r", "\\", "\""} |->
               CASE c = "a" -> 7 [] c = "b" -> 8 [] c = "t" -> 9 [] c = "n" -> 10
                 [] c = "v" -> 11 [] c = "f" -> 12 [] c = "r" -> 13
                 [] c = "\\" -> 92 [] c = "\"" -> 34]

RECURSIVE Unquote(_)
\* The bytes of the inside of an interpreted string literal.
Unquote(b) ==
    IF b = <<>> THEN [ok |-> TRUE, bytes |-> <<>>]
    ELSE IF b[1] = "\\"
    THEN IF Len(b) >= 4 /\ b[2] = "x" /\ IsHexDigit(b[3]) /\ IsHexDigit(b[4])
         THEN LET r == Unquote(Drop(b, 4))
              IN  [ok |-> r.ok, bytes |-> <<HexVal(b[3]) * 16 + HexVal(b[4])>> \o r.bytes]
         ELSE IF Len(b) >= 2 /\ b[2] \in DOMAIN Escapes
         THEN LET r == Unquote(Drop(b, 2))
              IN  [ok |-> r.ok, bytes |-> <<Escapes[b[2]]>> \o r.bytes]
         ELSE [ok |-> FALSE, bytes |-> <<>>]
    ELSE IF \E i \in 1..95 : Printable[i] = b[1]
    THEN LET r == Unquote(Tail(b))
         IN  [ok |-> r.ok,
              bytes |-> <<(CHOOSE i \in 1..95 : Printable[i] = b[1]) + 31>> \o r.bytes]
    ELSE [ok |-> FALSE, bytes |-> <<>>]

StrToken(inside) ==
    IF Unquote(inside).ok THEN [kind |-> "str", bytes |-> Unquote(inside).bytes]
    ELSE BadToken

RECURSIVE Scan(_)
\* The tokens of a text.
Scan(t) ==
    IF t = <<>> THEN <<>>
    ELSE IF IsSpace(t[1]) THEN Scan(Tail(t))
    ELSE IF t[1] \in {",", "+"}
    THEN <<[kind |-> t[1], bytes |-> <<>>]>> \o Scan(Tail(t))
    ELSE IF IsDigit(t[1])
    THEN <<NumToken(SubSeq(t, 1, WordLen(t)))>> \o Scan(Drop(t, WordLen(t)))
    ELSE IF t[1] = "\"" /\ ClosingQuote(t, 2) > 0
    THEN <<StrToken(SubSeq(t, 2, ClosingQuote(t, 2) - 1))>>
             \o Scan(Drop(t, ClosingQuote(t, 2)))
    ELSE <<BadToken>>

\* The element list of a composite literal []byte{ ... }: byte constants
\* separated by commas, a last comma allowed; it may be empty.
IsElementList(toks) ==
    \A i \in 1..Len(toks) :
        IF i % 2 = 1 THEN toks[i].kind = "num" /\ toks[i].bytes[1] <= 255
        ELSE toks[i].kind = ","

\* The argument of a conversion []byte( ... ): one expression, here string
\* literals joined by "+", a last comma allowed.
IsStringArgument(toks) ==
    LET m == IF toks # <<>> /\ Last(toks).kind = "," THEN Len(toks) - 1
             ELSE Len(toks)
    IN  /\ m % 2 = 1
        /\ \A i \in 1..m : toks[i].kind = IF i % 2 = 1 THEN "str" ELSE "+"

RECURSIVE BytesOf(_)
\* The bytes the literals of a token list hold, in order.
BytesOf(toks) == IF toks = <<>> THEN <<>>
                 ELSE BytesOf(Front(toks)) \o Last(toks).bytes

WellFormed(open, text, close) ==
    \/ open = "{" /\ close = "}" /\ IsElementList(Scan(text))
    \/ open = "(" /\ close = ")" /\ IsStringArgument(Scan(text))

Lines(text) == Cardinality({i \in 1..Len(text) : text[i] = "\n"})

\* C9: for each of the five formats and every input, the empty one included,
\* the emitted literal is well formed and holds exactly the input bytes, in
\* order, in lines of at most step bytes.
LiteralRoundTrip ==
    gPc = "done" =>
        /\ WellFormed(gOpen, gOut, gClose)
        /\ BytesOf(Scan(gOut)) = buffer
        /\ Lines(gOut) * step >= Len(buffer)
        /\ Lines(gOut) * step < Len(buffer) + step

====
